---- MODULE Spec2Model ----
(***************************************************************************)
(* AutoDaveSave (src/AudoDaveSave.cpp): a Notepad++ plugin that posts the  *)
(* host's "Save All" command from a periodic thread timer and shows a      *)
(* debug countdown window and an About window.                             *)
(*                                                                         *)
(* The model keeps the plugin's globals under their source names, the part *)
(* of the operating system the plugin drives (the thread-timer table, the  *)
(* debug window's timer and message queue, the edit control's text), the   *)
(* host's menu check marks, and the monotonic clock.  Every C function is  *)
(* an operator from a state record to a state record, so that a handler is *)
(* the composition of the calls it makes, in the order the code makes them.*)
(***************************************************************************)
EXTENDS Integers, Sequences, FiniteSets

VARIABLES
    phase,              \* life cycle of the DLL inside the host
    now,                \* GetTickCount64(), in ms
    g_hNppWnd,          \* host window handle (NULL or NppHwnd)
    g_autosaveTimerId,  \* id returned by SetTimer, 0 when none is held
    timers,             \* OS thread timers calling AutosaveTimerProc
    staleFire,          \* WM_TIMER already posted for a timer killed since
    g_hDbgWnd,          \* debug window handle
    g_hDbgEdit,         \* debug window's edit control
    g_dbgTimerId,       \* id of the debug refresh timer, 0 when none
    dbgTimerSet,        \* OS: the debug window's refresh timer is armed
    dbgQueue,           \* OS: WM_TIMER messages posted to the debug window
    dbgText,            \* OS: text of the debug edit control
    g_hAboutWnd,        \* About window handle
    g_minutes,
    g_enabled,
    g_debug,
    g_intervalMs,
    g_nextTick,
    g_lastSaveValid,
    g_lastSaveLocal,
    g_lastErrValid,
    g_lastErrCode,
    init2Check,         \* g_items[i]._init2Check
    menuCheck,          \* host: check mark of each plugin menu item
    last                \* what came last, a clock advance or an entry point of
                        \* the scheduler, and the save-all dispatches it made

vars == << phase, now, g_hNppWnd, g_autosaveTimerId, timers, staleFire,
           g_hDbgWnd, g_hDbgEdit, g_dbgTimerId, dbgTimerSet, dbgQueue, dbgText,
           g_hAboutWnd, g_minutes, g_enabled, g_debug, g_intervalMs, g_nextTick,
           g_lastSaveValid, g_lastSaveLocal, g_lastErrValid, g_lastErrCode,
           init2Check, menuCheck, last >>

----------------------------------------------------------------------------
(* Program constants *)

NULL == 0
NppHwnd == 1
DbgHwnd == 2
DbgEditHwnd == 3
AboutHwnd == 4
kDbgTimerId == 9001
MsPerMinute == 60000
DefaultMinutes == 3

FUNC_TOGGLE == 0
FUNC_1MIN == 1
FUNC_3MIN == 2
FUNC_10MIN == 3
FUNC_DEBUG == 4
FUNC_ABOUT == 5
FUNC_COUNT == 6

FuncIdx == 0 .. (FUNC_COUNT - 1)

(* What PostMessageW for CMD_SAVEALL can meet: acceptance (0), or refusal  *)
(* with GetLastError() = ERROR_ACCESS_DENIED (5).                          *)
PostOk == 0
ErrCodes == {5}
PostResults == {PostOk} \cup ErrCodes

----------------------------------------------------------------------------
(* Bounds of the model *)

\* The clock is read on the minute up to MaxMinutes, and at a few instants
\* off the minute (half a second in, mid-interval, a second late).
MaxMinutes == 3
\* Thread-timer ids the OS can hand out at once.
MaxTimers == 2
\* WM_TIMER messages the debug window's queue holds.
MaxDbgQueue == 1

OffMinute == {500, 50000, 110000, 181000}
Instants == { k * MsPerMinute : k \in 0 .. MaxMinutes } \cup OffMinute

TimerIds == 1 .. MaxTimers

----------------------------------------------------------------------------
(* The state as one record, so that the C functions compose *)

S == [ phase |-> phase, now |-> now, g_hNppWnd |-> g_hNppWnd,
       g_autosaveTimerId |-> g_autosaveTimerId, timers |-> timers,
       staleFire |-> staleFire, g_hDbgWnd |-> g_hDbgWnd,
       g_hDbgEdit |-> g_hDbgEdit, g_dbgTimerId |-> g_dbgTimerId,
       dbgTimerSet |-> dbgTimerSet, dbgQueue |-> dbgQueue, dbgText |-> dbgText,
       g_hAboutWnd |-> g_hAboutWnd, g_minutes |-> g_minutes,
       g_enabled |-> g_enabled, g_debug |-> g_debug,
       g_intervalMs |-> g_intervalMs, g_nextTick |-> g_nextTick,
       g_lastSaveValid |-> g_lastSaveValid, g_lastSaveLocal |-> g_lastSaveLocal,
       g_lastErrValid |-> g_lastErrValid, g_lastErrCode |-> g_lastErrCode,
       init2Check |-> init2Check, menuCheck |-> menuCheck, last |-> last ]

Commit(r) ==
    /\ phase' = r.phase
    /\ now' = r.now
    /\ g_hNppWnd' = r.g_hNppWnd
    /\ g_autosaveTimerId' = r.g_autosaveTimerId
    /\ timers' = r.timers
    /\ staleFire' = r.staleFire
    /\ g_hDbgWnd' = r.g_hDbgWnd
    /\ g_hDbgEdit' = r.g_hDbgEdit
    /\ g_dbgTimerId' = r.g_dbgTimerId
    /\ dbgTimerSet' = r.dbgTimerSet
    /\ dbgQueue' = r.dbgQueue
    /\ dbgText' = r.dbgText
    /\ g_hAboutWnd' = r.g_hAboutWnd
    /\ g_minutes' = r.g_minutes
    /\ g_enabled' = r.g_enabled
    /\ g_debug' = r.g_debug
    /\ g_intervalMs' = r.g_intervalMs
    /\ g_nextTick' = r.g_nextTick
    /\ g_lastSaveValid' = r.g_lastSaveValid
    /\ g_lastSaveLocal' = r.g_lastSaveLocal
    /\ g_lastErrValid' = r.g_lastErrValid
    /\ g_lastErrCode' = r.g_lastErrCode
    /\ init2Check' = r.init2Check
    /\ menuCheck' = r.menuCheck
    /\ last' = r.last

\* The entry point of the scheduler that ran (DllMain, setInfo, ToggleAutosave,
\* SetMinutes, TimerFire, StaleFire, Cleanup), its argument (the minutes handed
\* to SetMinutes, else 0), and what each PostMessageW for CMD_SAVEALL it made
\* met, in order: << >> when it made none.
Ran(r, op, arg) == [r EXCEPT !.last = [op |-> op, arg |-> arg, post |-> << >>]]

----------------------------------------------------------------------------
(* Helpers *)

Min(A) == CHOOSE x \in A : \A y \in A : x <= y

\* Faulty variant: the product is taken in signed 32 bits and loses bit 31.
ComputeIntervalUnits_Signed(mins) ==
    LET safeMins == IF mins <= 0 THEN 1 ELSE mins
    IN  (safeMins * 1875) % 67108864

\* static_cast<DWORD>(safeMins) * 60u * 1000u, in 32 bits, counted in units
\* of 32 ms: 60000 = 2^5 * 1875, so the product modulo 2^32 is 2^5 times
\* (safeMins * 1875) mod 2^27.
ComputeIntervalUnits(mins) ==
    LET safeMins == IF mins <= 0 THEN 1 ELSE mins
    IN  (safeMins * 1875) % 134217728

ComputeIntervalMs(mins) == 32 * ComputeIntervalUnits(mins)

FormatMMSS(totalSeconds) == << totalSeconds \div 60, totalSeconds % 60 >>

\* The local time of a save is the clock reading at the save; its fields.
LocalTime(t) == [ wHour |-> (t \div 3600000) % 24,
                  wMinute |-> (t \div 60000) % 60,
                  wSecond |-> (t \div 1000) % 60 ]

FormatHHMMSS(st) == << st.wHour, st.wMinute, st.wSecond >>

UpdateInitChecks(s) ==
    [s EXCEPT !.init2Check =
        [i \in FuncIdx |->
            CASE i = FUNC_TOGGLE -> s.g_enabled
              [] i = FUNC_1MIN   -> (s.g_minutes = 1)
              [] i = FUNC_3MIN   -> (s.g_minutes = 3)
              [] i = FUNC_10MIN  -> (s.g_minutes = 10)
              [] i = FUNC_DEBUG  -> s.g_debug
              [] OTHER           -> FALSE]]

UpdateRuntimeChecks(s) ==
    IF s.g_hNppWnd = NULL THEN s
    ELSE [s EXCEPT !.menuCheck =
            [i \in FuncIdx |->
                CASE i = FUNC_TOGGLE -> s.g_enabled
                  [] i = FUNC_1MIN   -> (s.g_minutes = 1)
                  [] i = FUNC_3MIN   -> (s.g_minutes = 3)
                  [] i = FUNC_10MIN  -> (s.g_minutes = 10)
                  [] i = FUNC_DEBUG  -> s.g_debug
                  [] OTHER           -> s.menuCheck[i]]]

ApplyChecks(s) == UpdateRuntimeChecks(UpdateInitChecks(s))

----------------------------------------------------------------------------
(* Autosave timer *)

\* KillTimer(nullptr, id): the timer leaves the table; a WM_TIMER it had
\* already caused (it was due) stays in the message queue.
KillTimer(s, id) ==
    [s EXCEPT !.timers = { t \in s.timers : t.id # id },
              !.staleFire = IF \E t \in s.timers : t.id = id /\ t.due <= s.now
                            THEN TRUE ELSE s.staleFire]

\* SetTimer(nullptr, 0, ms, AutosaveTimerProc): a new timer under a fresh id,
\* or 0 when the OS has none to give.
SetTimerId(s, ok) ==
    LET free == TimerIds \ { t.id : t \in s.timers }
    IN  IF ok /\ free # {} THEN Min(free) ELSE 0

SetTimer(s, id, ms) ==
    IF id = 0 THEN s
    ELSE [s EXCEPT !.timers = s.timers \cup
                        {[id |-> id, period |-> ms, due |-> s.now + ms]}]

\* Faulty variant: drops the id without KillTimer.
StopAutosaveTimer_KeepsTimer(s) == [s EXCEPT !.g_autosaveTimerId = 0]

StopAutosaveTimer(s) ==
    IF s.g_autosaveTimerId = 0 THEN s
    ELSE [KillTimer(s, s.g_autosaveTimerId) EXCEPT !.g_autosaveTimerId = 0]

\* PostMessageW(g_hDbgWnd, WM_TIMER, g_dbgTimerId, 0); a full queue refuses it.
PostDbgTimer(s) ==
    IF Len(s.dbgQueue) < MaxDbgQueue
    THEN [s EXCEPT !.dbgQueue = Append(s.dbgQueue, s.g_dbgTimerId)]
    ELSE s

\* Faulty variant: a refused post returns before the schedule is recomputed.
AutosaveTimerProc_RefusalReturns(s, post) ==
    IF ~s.g_enabled THEN s
    ELSE IF s.g_hNppWnd = NULL THEN s
    ELSE
      LET s1 == [s EXCEPT !.g_lastErrValid = FALSE, !.g_lastErrCode = 0,
                          !.last = [s.last EXCEPT !.post = Append(s.last.post, post)]]
          s3 == [s1 EXCEPT !.g_lastSaveValid = TRUE,
                           !.g_lastSaveLocal = LocalTime(s1.now),
                           !.g_nextTick = s1.now + s1.g_intervalMs]
      IN  IF post # PostOk
          THEN [s1 EXCEPT !.g_lastErrValid = TRUE, !.g_lastErrCode = post]
          ELSE IF s3.g_debug /\ s3.g_hDbgWnd # NULL THEN PostDbgTimer(s3) ELSE s3

\* Faulty variant: the callback does not look at g_enabled.
AutosaveTimerProc_IgnoresEnabled(s, post) ==
    IF s.g_hNppWnd = NULL THEN s
    ELSE
      LET s1 == [s EXCEPT !.g_lastErrValid = FALSE, !.g_lastErrCode = 0,
                          !.last = [s.last EXCEPT !.post = Append(s.last.post, post)]]
          s2 == IF post # PostOk
                THEN [s1 EXCEPT !.g_lastErrValid = TRUE, !.g_lastErrCode = post]
                ELSE [s1 EXCEPT !.g_lastSaveValid = TRUE,
                                !.g_lastSaveLocal = LocalTime(s1.now)]
          s3 == [s2 EXCEPT !.g_nextTick = s2.now + s2.g_intervalMs]
      IN  IF s3.g_debug /\ s3.g_hDbgWnd # NULL THEN PostDbgTimer(s3) ELSE s3

\* Faulty variant: the next fire is counted from the previous schedule, not
\* from the firing time.
AutosaveTimerProc_FromSchedule(s, post) ==
    IF ~s.g_enabled THEN s
    ELSE IF s.g_hNppWnd = NULL THEN s
    ELSE
      LET s1 == [s EXCEPT !.g_lastErrValid = FALSE, !.g_lastErrCode = 0,
                          !.last = [s.last EXCEPT !.post = Append(s.last.post, post)]]
          s2 == IF post # PostOk
                THEN [s1 EXCEPT !.g_lastErrValid = TRUE, !.g_lastErrCode = post]
                ELSE [s1 EXCEPT !.g_lastSaveValid = TRUE,
                                !.g_lastSaveLocal = LocalTime(s1.now)]
          s3 == [s2 EXCEPT !.g_nextTick = s2.g_nextTick + s2.g_intervalMs]
      IN  IF s3.g_debug /\ s3.g_hDbgWnd # NULL THEN PostDbgTimer(s3) ELSE s3

\* Faulty variant: the callback cancels its timer once it has dispatched.
AutosaveTimerProc_OneShot(s, post) ==
    IF ~s.g_enabled THEN s
    ELSE IF s.g_hNppWnd = NULL THEN s
    ELSE
      LET s1 == [s EXCEPT !.g_lastErrValid = FALSE, !.g_lastErrCode = 0,
                          !.last = [s.last EXCEPT !.post = Append(s.last.post, post)]]
          s2 == IF post # PostOk
                THEN [s1 EXCEPT !.g_lastErrValid = TRUE, !.g_lastErrCode = post]
                ELSE [s1 EXCEPT !.g_lastSaveValid = TRUE,
                                !.g_lastSaveLocal = LocalTime(s1.now)]
          s3 == [StopAutosaveTimer(s2) EXCEPT
                    !.g_nextTick = s2.now + s2.g_intervalMs]
      IN  IF s3.g_debug /\ s3.g_hDbgWnd # NULL THEN PostDbgTimer(s3) ELSE s3

\* post: what PostMessageW for CMD_SAVEALL meets, PostOk or an error code.
AutosaveTimerProc(s, post) ==
    IF ~s.g_enabled THEN s
    ELSE IF s.g_hNppWnd = NULL THEN s
    ELSE
      LET s1 == [s EXCEPT !.g_lastErrValid = FALSE, !.g_lastErrCode = 0,
                          !.last = [s.last EXCEPT !.post = Append(s.last.post, post)]]
          s2 == IF post # PostOk
                THEN [s1 EXCEPT !.g_lastErrValid = TRUE, !.g_lastErrCode = post]
                ELSE [s1 EXCEPT !.g_lastSaveValid = TRUE,
                                !.g_lastSaveLocal = LocalTime(s1.now)]
          s3 == [s2 EXCEPT !.g_nextTick = s2.now + s2.g_intervalMs]
      IN  IF s3.g_debug /\ s3.g_hDbgWnd # NULL THEN PostDbgTimer(s3) ELSE s3

\* Faulty variant: the timer is armed before the interval is recomputed.
StartAutosaveTimer_StaleInterval(s, tmOk) ==
    LET s2 == StopAutosaveTimer(s)
        id == SetTimerId(s2, tmOk)
        s3 == [SetTimer(s2, id, s2.g_intervalMs) EXCEPT !.g_autosaveTimerId = id]
        s4 == [s3 EXCEPT !.g_intervalMs = ComputeIntervalMs(s3.g_minutes)]
    IN  [s4 EXCEPT !.g_nextTick = s4.now + s4.g_intervalMs]

\* Faulty variant: the timer armed before is not cancelled.
StartAutosaveTimer_NoStop(s, tmOk) ==
    LET s1 == [s EXCEPT !.g_intervalMs = ComputeIntervalMs(s.g_minutes)]
        id == SetTimerId(s1, tmOk)
        s3 == [SetTimer(s1, id, s1.g_intervalMs) EXCEPT !.g_autosaveTimerId = id]
    IN  [s3 EXCEPT !.g_nextTick = s3.now + s3.g_intervalMs]

\* Faulty variant: a failed SetTimer leaves the id of the timer just killed.
StartAutosaveTimer_KeepsOldId(s, tmOk) ==
    LET s1 == [s EXCEPT !.g_intervalMs = ComputeIntervalMs(s.g_minutes)]
        s2 == StopAutosaveTimer(s1)
        id == SetTimerId(s2, tmOk)
        s3 == [SetTimer(s2, id, s2.g_intervalMs) EXCEPT
                  !.g_autosaveTimerId = IF id = 0 THEN s.g_autosaveTimerId
                                        ELSE id]
    IN  [s3 EXCEPT !.g_nextTick = s3.now + s3.g_intervalMs]

\* tmOk: whether SetTimer finds a timer to give.
StartAutosaveTimer(s, tmOk) ==
    LET s1 == [s EXCEPT !.g_intervalMs = ComputeIntervalMs(s.g_minutes)]
        s2 == StopAutosaveTimer(s1)
        id == SetTimerId(s2, tmOk)
        s3 == [SetTimer(s2, id, s2.g_intervalMs) EXCEPT !.g_autosaveTimerId = id]
    IN  [s3 EXCEPT !.g_nextTick = s3.now + s3.g_intervalMs]

----------------------------------------------------------------------------
(* Debug window *)

NoText == << >>

\* Faulty variant: no clamp for an overdue fire.
RemainSec_NoClamp(nextTick, t) == (nextTick - t) \div 1000

\* (DWORD)((g_nextTick - now) / 1000u) under the guard g_nextTick > now.  The
\* difference is at most g_intervalMs < 2^32 there, so neither the unsigned
\* subtraction nor the cast to DWORD changes the value.
RemainSec(nextTick, t) ==
    IF nextTick > t THEN (nextTick - t) \div 1000 ELSE 0

\* The text, line by line: an absent value ("n/a", "none") is << >>.
BuildDebugText(s) ==
    << [ enabled   |-> s.g_enabled,
         minutes   |-> s.g_minutes,
         nextIn    |-> IF ~s.g_enabled THEN << >>
                       ELSE FormatMMSS(RemainSec(s.g_nextTick, s.now)),
         lastSave  |-> IF s.g_lastSaveValid
                       THEN FormatHHMMSS(s.g_lastSaveLocal) ELSE << >>,
         lastError |-> IF s.g_lastErrValid THEN << s.g_lastErrCode >>
                       ELSE << >> ] >>

SetDbgText(s, text) ==
    IF s.g_hDbgEdit = NULL THEN s ELSE [s EXCEPT !.dbgText = text]

\* DbgWndProc, WM_CREATE: the edit control is made and filled.
DbgWmCreate(s) ==
    SetDbgText([s EXCEPT !.g_hDbgEdit = DbgEditHwnd], BuildDebugText(s))

\* Faulty variant: a refresh that finds the fire overdue moves it on.
DbgWmTimer_Reschedules(s, wParam) ==
    IF wParam # s.g_dbgTimerId THEN s
    ELSE IF ~s.g_debug THEN s
    ELSE LET s1 == IF s.g_enabled /\ s.g_nextTick <= s.now
                   THEN [s EXCEPT !.g_nextTick = s.now + s.g_intervalMs]
                   ELSE s
         IN  SetDbgText(s1, BuildDebugText(s1))

\* DbgWndProc, WM_TIMER with the given wParam.
DbgWmTimer(s, wParam) ==
    IF wParam # s.g_dbgTimerId THEN s
    ELSE IF ~s.g_debug THEN s
    ELSE SetDbgText(s, BuildDebugText(s))

\* DbgWndProc, WM_DESTROY.
DbgWmDestroy(s) == [s EXCEPT !.g_hDbgWnd = NULL, !.g_hDbgEdit = NULL]

\* DestroyWindow(g_hDbgWnd): the OS drops the window's timer, its queued
\* messages and its child's text, and sends WM_DESTROY.
DestroyDbgWindow(s) ==
    DbgWmDestroy([s EXCEPT !.dbgTimerSet = FALSE, !.dbgQueue = << >>,
                           !.dbgText = NoText])

\* Faulty variant: closing the window leaves the debug flag on.
DbgWmClose_KeepsFlag(s) ==
    LET s1 == ApplyChecks(s)
        s2 == IF s1.g_dbgTimerId # 0
              THEN [s1 EXCEPT !.dbgTimerSet = FALSE, !.g_dbgTimerId = 0]
              ELSE s1
    IN  DestroyDbgWindow(s2)

\* Faulty variant: closing the window does not refresh the check marks.
DbgWmClose_NoChecks(s) ==
    LET s1 == [s EXCEPT !.g_debug = FALSE]
        s2 == IF s1.g_dbgTimerId # 0
              THEN [s1 EXCEPT !.dbgTimerSet = FALSE, !.g_dbgTimerId = 0]
              ELSE s1
    IN  DestroyDbgWindow(s2)

\* DbgWndProc, WM_CLOSE.
DbgWmClose(s) ==
    LET s1 == ApplyChecks([s EXCEPT !.g_debug = FALSE])
        s2 == IF s1.g_dbgTimerId # 0
              THEN [s1 EXCEPT !.dbgTimerSet = FALSE, !.g_dbgTimerId = 0]
              ELSE s1
    IN  DestroyDbgWindow(s2)

\* wndOk: whether CreateWindowExW makes the window.
ShowDebugWindow(s, wndOk) ==
    IF s.g_hDbgWnd # NULL THEN s
    ELSE IF ~wndOk THEN s
    ELSE
      LET s1 == DbgWmCreate([s EXCEPT !.g_hDbgWnd = DbgHwnd])
          s2 == [s1 EXCEPT !.g_dbgTimerId = kDbgTimerId, !.dbgTimerSet = TRUE]
      IN  PostDbgTimer(s2)

HideDebugWindow(s) ==
    IF s.g_hDbgWnd = NULL THEN s
    ELSE
      LET s1 == IF s.g_dbgTimerId # 0
                THEN [s EXCEPT !.dbgTimerSet = FALSE, !.g_dbgTimerId = 0]
                ELSE s
      IN  [DestroyDbgWindow(s1) EXCEPT !.g_hDbgWnd = NULL, !.g_hDbgEdit = NULL]

----------------------------------------------------------------------------
(* About window *)

ShowAboutWindow(s, wndOk) ==
    IF s.g_hAboutWnd # NULL THEN s
    ELSE IF ~wndOk THEN s
    ELSE [s EXCEPT !.g_hAboutWnd = AboutHwnd]

\* AboutWndProc, WM_CLOSE then WM_DESTROY.
AboutWmClose(s) == [s EXCEPT !.g_hAboutWnd = NULL]

----------------------------------------------------------------------------
(* Menu actions, clean-up and the exports, as functions of the state *)

ToggleAutosaveF(s, tmOk, wndOk) ==
    LET s1 == [s EXCEPT !.g_enabled = ~s.g_enabled]
        s2 == IF s1.g_enabled THEN StartAutosaveTimer(s1, tmOk)
              ELSE StopAutosaveTimer(s1)
        s3 == ApplyChecks(s2)
        s4 == IF s3.g_debug THEN ShowDebugWindow(s3, wndOk) ELSE s3
    IN  IF s4.g_debug /\ s4.g_hDbgWnd # NULL THEN PostDbgTimer(s4) ELSE s4

\* Faulty variant: the timer is started whether autosave is enabled or not.
SetMinutesF_AlwaysStarts(s, m, tmOk, wndOk) ==
    LET s1 == [s EXCEPT !.g_minutes = IF m <= 0 THEN 1 ELSE m]
        s2 == StartAutosaveTimer(s1, tmOk)
        s3 == ApplyChecks(s2)
    IN  IF s3.g_debug THEN ShowDebugWindow(s3, wndOk) ELSE s3

\* Faulty variant: the timer is restarted before the new minutes are stored.
SetMinutesF_StartsBeforeStore(s, m, tmOk, wndOk) ==
    LET s1 == IF s.g_enabled THEN StartAutosaveTimer(s, tmOk) ELSE s
        s2 == [s1 EXCEPT !.g_minutes = IF m <= 0 THEN 1 ELSE m]
        s3 == ApplyChecks(s2)
    IN  IF s3.g_debug THEN ShowDebugWindow(s3, wndOk) ELSE s3

\* Faulty variant: only negative minutes are clamped.
SetMinutesF_ClampsNegative(s, m, tmOk, wndOk) ==
    LET s1 == [s EXCEPT !.g_minutes = IF m < 0 THEN 1 ELSE m]
        s2 == IF s1.g_enabled THEN StartAutosaveTimer(s1, tmOk) ELSE s1
        s3 == ApplyChecks(s2)
    IN  IF s3.g_debug THEN ShowDebugWindow(s3, wndOk) ELSE s3

\* Faulty variant: an interval equal to the active one does not restart.
SetMinutesF_SkipsSame(s, m, tmOk, wndOk) ==
    LET s1 == [s EXCEPT !.g_minutes = IF m <= 0 THEN 1 ELSE m]
        s2 == IF s1.g_enabled /\ s1.g_minutes # s.g_minutes
              THEN StartAutosaveTimer(s1, tmOk) ELSE s1
        s3 == ApplyChecks(s2)
    IN  IF s3.g_debug THEN ShowDebugWindow(s3, wndOk) ELSE s3

SetMinutesF(s, m, tmOk, wndOk) ==
    LET s1 == [s EXCEPT !.g_minutes = IF m <= 0 THEN 1 ELSE m]
        s2 == IF s1.g_enabled THEN StartAutosaveTimer(s1, tmOk) ELSE s1
        s3 == ApplyChecks(s2)
    IN  IF s3.g_debug THEN ShowDebugWindow(s3, wndOk) ELSE s3

\* Faulty variant: showing the window restarts the autosave countdown.
ToggleDebugF_Restarts(s, wndOk) ==
    LET s1 == [s EXCEPT !.g_debug = ~s.g_debug]
        s2 == IF s1.g_debug
              THEN ShowDebugWindow(IF s1.g_enabled
                                   THEN StartAutosaveTimer(s1, TRUE) ELSE s1,
                                   wndOk)
              ELSE HideDebugWindow(s1)
    IN  ApplyChecks(s2)

ToggleDebugF(s, wndOk) ==
    LET s1 == [s EXCEPT !.g_debug = ~s.g_debug]
        s2 == IF s1.g_debug THEN ShowDebugWindow(s1, wndOk)
              ELSE HideDebugWindow(s1)
    IN  ApplyChecks(s2)

\* Faulty variant: the host handle is kept.
CleanupF_KeepsHandle(s) ==
    LET s1 == StopAutosaveTimer(s)
        s2 == IF s1.g_hDbgWnd # NULL THEN HideDebugWindow(s1) ELSE s1
        s3 == IF s2.g_hAboutWnd # NULL THEN AboutWmClose(s2) ELSE s2
    IN  [s3 EXCEPT !.g_hAboutWnd = NULL]

CleanupF(s) ==
    LET s1 == StopAutosaveTimer(s)
        s2 == IF s1.g_hDbgWnd # NULL THEN HideDebugWindow(s1) ELSE s1
        s3 == IF s2.g_hAboutWnd # NULL THEN AboutWmClose(s2) ELSE s2
    IN  [s3 EXCEPT !.g_hAboutWnd = NULL, !.g_hNppWnd = NULL]

\* Faulty variant: the interval is not reset.
setInfoF_KeepsMinutes(s, h, tmOk) ==
    LET s1 == [s EXCEPT !.g_hNppWnd = h,
                        !.g_enabled = TRUE, !.g_debug = FALSE,
                        !.init2Check = [i \in FuncIdx |-> FALSE]]
    IN  StartAutosaveTimer(UpdateInitChecks(s1), tmOk)

\* h: pData->_nppHandle.
setInfoF(s, h, tmOk) ==
    LET s1 == [s EXCEPT !.g_hNppWnd = h, !.g_minutes = DefaultMinutes,
                        !.g_enabled = TRUE, !.g_debug = FALSE,
                        !.init2Check = [i \in FuncIdx |-> FALSE]]
    IN  StartAutosaveTimer(UpdateInitChecks(s1), tmOk)

\* The host builds the plugin's menu from the items it is handed, checking
\* each item whose _init2Check is set.
getFuncsArrayF(s) ==
    LET s1 == UpdateInitChecks(s)
    IN  [s1 EXCEPT !.menuCheck = s1.init2Check]

beNotifiedF(s, ready) == IF ready THEN UpdateRuntimeChecks(s) ELSE s

----------------------------------------------------------------------------
(* The state machine *)

NoChecks == [i \in FuncIdx |-> FALSE]

\* DLL_PROCESS_ATTACH: the globals hold their static initialisers.
Init ==
    /\ phase = "attached"
    /\ now = 0
    /\ g_hNppWnd = NULL
    /\ g_autosaveTimerId = 0
    /\ timers = {}
    /\ staleFire = FALSE
    /\ g_hDbgWnd = NULL
    /\ g_hDbgEdit = NULL
    /\ g_dbgTimerId = 0
    /\ dbgTimerSet = FALSE
    /\ dbgQueue = << >>
    /\ dbgText = NoText
    /\ g_hAboutWnd = NULL
    /\ g_minutes = DefaultMinutes
    /\ g_enabled = TRUE
    /\ g_debug = FALSE
    /\ g_intervalMs = 0
    /\ g_nextTick = 0
    /\ g_lastSaveValid = FALSE
    /\ g_lastSaveLocal = LocalTime(0)
    /\ g_lastErrValid = FALSE
    /\ g_lastErrCode = 0
    /\ init2Check = NoChecks
    /\ menuCheck = NoChecks
    /\ last = [op |-> "DllMain", arg |-> 0, post |-> << >>]

\* Time passes; the clock is next read at a later instant, one of T.
AdvanceTo(T) ==
    \E t \in T :
        /\ t > now
        /\ Commit(Ran([S EXCEPT !.now = t], "Advance", 0))

Advance == AdvanceTo(Instants)

setInfo(tmOk) ==
    /\ phase = "attached"
    /\ Commit(setInfoF(Ran([S EXCEPT !.phase = "loaded"], "setInfo", 0),
                       NppHwnd, tmOk))

getFuncsArray ==
    /\ phase = "loaded"
    /\ Commit(getFuncsArrayF([S EXCEPT !.phase = "registered"]))

\* beNotified with NPPN_READY, sent once when the host has finished starting.
beNotifiedReady ==
    /\ phase = "registered"
    /\ Commit(beNotifiedF([S EXCEPT !.phase = "ready"], TRUE))

\* beNotified with any other notification code.
beNotifiedOther ==
    /\ phase \in {"registered", "ready"}
    /\ Commit(beNotifiedF(S, FALSE))

ToggleAutosave(tmOk, wndOk) ==
    /\ phase = "ready"
    /\ Commit(ToggleAutosaveF(Ran(S, "ToggleAutosave", 0), tmOk, wndOk))

SetMinutes(m, tmOk, wndOk) ==
    /\ phase = "ready"
    /\ Commit(SetMinutesF(Ran(S, "SetMinutes", m), m, tmOk, wndOk))

Set1(tmOk, wndOk) == SetMinutes(1, tmOk, wndOk)
Set3(tmOk, wndOk) == SetMinutes(3, tmOk, wndOk)
Set10(tmOk, wndOk) == SetMinutes(10, tmOk, wndOk)

ToggleDebug(wndOk) ==
    /\ phase = "ready"
    /\ Commit(ToggleDebugF(S, wndOk))

ShowAbout(wndOk) ==
    /\ phase = "ready"
    /\ Commit(ShowAboutWindow(S, wndOk))

\* The user closes the About window.
AboutClose ==
    /\ g_hAboutWnd # NULL
    /\ Commit(AboutWmClose(S))

\* The user closes the debug window.
DbgClose ==
    /\ g_hDbgWnd # NULL
    /\ Commit(DbgWmClose(S))

\* The debug window's refresh timer fires.
DbgTimerTick ==
    /\ dbgTimerSet
    /\ Commit(DbgWmTimer(S, kDbgTimerId))

\* A WM_TIMER posted to the debug window is delivered.
DbgPostedTimer ==
    /\ dbgQueue # << >>
    /\ Commit(DbgWmTimer([S EXCEPT !.dbgQueue = Tail(dbgQueue)],
                         Head(dbgQueue)))

\* A periodic timer that came due at `due` and is served at t is next due
\* one period after its last expiry.
NextDue(due, period, t) == due + period * (((t - due) \div period) + 1)

\* An armed autosave timer is due and the OS calls AutosaveTimerProc.
TimerFire(post) ==
    /\ \E tm \in timers :
         /\ tm.due <= now
         /\ Commit(AutosaveTimerProc(
                Ran([S EXCEPT !.timers = (timers \ {tm}) \cup
                        {[tm EXCEPT !.due = NextDue(tm.due, tm.period, now)]}],
                    "TimerFire", << >>),
                post))

\* A WM_TIMER left in the queue by a timer killed since is dispatched.
StaleFire(post) ==
    /\ staleFire
    /\ Commit(AutosaveTimerProc(
            Ran([S EXCEPT !.staleFire = FALSE], "StaleFire", 0), post))

\* DllMain, DLL_PROCESS_DETACH.
Cleanup ==
    /\ phase # "detached"
    /\ Commit(CleanupF(Ran([S EXCEPT !.phase = "detached"], "Cleanup", 0)))

\* TG, WG: the answers SetTimer and CreateWindowExW can give.
Step(TG, WG) ==
    \/ Advance
    \/ \E tmOk \in TG : setInfo(tmOk)
    \/ getFuncsArray
    \/ beNotifiedReady
    \/ beNotifiedOther
    \/ \E tmOk \in TG, wndOk \in WG : ToggleAutosave(tmOk, wndOk)
    \/ \E tmOk \in TG, wndOk \in WG : Set1(tmOk, wndOk)
    \/ \E tmOk \in TG, wndOk \in WG : Set3(tmOk, wndOk)
    \/ \E tmOk \in TG, wndOk \in WG : Set10(tmOk, wndOk)
    \/ \E wndOk \in WG : ToggleDebug(wndOk)
    \/ \E wndOk \in WG : ShowAbout(wndOk)
    \/ AboutClose
    \/ DbgClose
    \/ DbgTimerTick
    \/ DbgPostedTimer
    \/ \E post \in PostResults : TimerFire(post)
    \/ \E post \in PostResults : StaleFire(post)
    \/ Cleanup

\* The OS grants every timer and window the plugin asks for.
Next == Step({TRUE}, {TRUE})

Spec == Init /\ [][Next]_vars

\* SetMinutes as any caller may call it, with minutes that are not positive.
MaxNonPositive == 2
NonPositive == (0 - MaxNonPositive) .. 0

SetMinutesAny(tmOk, wndOk) == \E m \in NonPositive : SetMinutes(m, tmOk, wndOk)

\* The scheduler's own entry points, with SetMinutes open to any caller.
NextClamp ==
    \/ Advance
    \/ setInfo(TRUE)
    \/ getFuncsArray
    \/ beNotifiedReady
    \/ ToggleAutosave(TRUE, TRUE)
    \/ Set1(TRUE, TRUE)
    \/ Set3(TRUE, TRUE)
    \/ Set10(TRUE, TRUE)
    \/ SetMinutesAny(TRUE, TRUE)
    \/ ToggleDebug(TRUE)
    \/ \E post \in PostResults : TimerFire(post)
    \/ \E post \in PostResults : StaleFire(post)

SpecClamp == Init /\ [][NextClamp]_vars

\* setInfo as a host may call it again while the plugin stays loaded.
setInfoAgain(tmOk) ==
    /\ phase \in {"loaded", "registered", "ready"}
    /\ Commit(setInfoF(Ran([S EXCEPT !.phase = "loaded"], "setInfo", 0),
                       NppHwnd, tmOk))

\* The scheduler's own entry points, with setInfo callable again.
NextReinit ==
    \/ Advance
    \/ setInfo(TRUE)
    \/ setInfoAgain(TRUE)
    \/ getFuncsArray
    \/ beNotifiedReady
    \/ ToggleAutosave(TRUE, TRUE)
    \/ Set1(TRUE, TRUE)
    \/ Set3(TRUE, TRUE)
    \/ Set10(TRUE, TRUE)
    \/ ToggleDebug(TRUE)
    \/ \E post \in PostResults : TimerFire(post)
    \/ \E post \in PostResults : StaleFire(post)

SpecReinit == Init /\ [][NextReinit]_vars

\* SetMinutes as any caller may call it, with minutes far beyond the menu's:
\* 30000 minutes, whose milliseconds still fit 32 bits, and the first two
\* numbers of minutes whose milliseconds do not.
WideMinutes == {30000, 71583, 71584}

SetMinutesWide(tmOk, wndOk) == \E m \in WideMinutes : SetMinutes(m, tmOk, wndOk)

\* The scheduler's own entry points, with SetMinutes open to any caller.
NextWide ==
    \/ Advance
    \/ setInfo(TRUE)
    \/ getFuncsArray
    \/ beNotifiedReady
    \/ ToggleAutosave(TRUE, TRUE)
    \/ Set1(TRUE, TRUE)
    \/ Set3(TRUE, TRUE)
    \/ SetMinutesWide(TRUE, TRUE)
    \/ \E post \in PostResults : TimerFire(post)
    \/ \E post \in PostResults : StaleFire(post)

SpecWide == Init /\ [][NextWide]_vars

\* The scheduler and the debug window with an OS that may refuse a timer or
\* a window.
NextFault ==
    \/ Advance
    \/ \E tmOk \in BOOLEAN : setInfo(tmOk)
    \/ getFuncsArray
    \/ beNotifiedReady
    \/ \E tmOk \in BOOLEAN, wndOk \in BOOLEAN : ToggleAutosave(tmOk, wndOk)
    \/ \E tmOk \in BOOLEAN, wndOk \in BOOLEAN : Set1(tmOk, wndOk)
    \/ \E tmOk \in BOOLEAN, wndOk \in BOOLEAN : Set3(tmOk, wndOk)
    \/ \E wndOk \in BOOLEAN : ToggleDebug(wndOk)
    \/ DbgClose
    \/ DbgTimerTick
    \/ DbgPostedTimer
    \/ \E post \in PostResults : TimerFire(post)
    \/ \E post \in PostResults : StaleFire(post)

SpecFault == Init /\ [][NextFault]_vars

\* The user stops using the menu: the host runs on, pumping its messages.
Idle ==
    /\ phase = "ready"
    /\ Commit([S EXCEPT !.phase = "idle"])

\* The instants the clock is read at when followed over unbounded time: every
\* half minute.
LiveInstants == { k * (MsPerMinute \div 2) : k \in 0 .. MaxMinutes }

Pass == AdvanceTo(LiveInstants)

\* GetTickCount64 counts from an origin the program never looks at: it keeps
\* instants only to compare and subtract them.  When the clock stands at the
\* last instant read and no timer is due, the clock and the instants kept are
\* counted from that instant on (a g_nextTick left behind by a disabled
\* scheduler, which nothing reads, from the origin).
ClockOrigin ==
    /\ \A t \in LiveInstants : t <= now
    /\ \A tm \in timers : tm.due > now
    /\ g_enabled => g_nextTick >= now
    /\ Commit([S EXCEPT
            !.now = 0,
            !.g_nextTick = IF g_nextTick >= now THEN g_nextTick - now ELSE 0,
            !.timers = { [tm EXCEPT !.due = tm.due - now] : tm \in timers }])

\* The scheduler over unbounded time, with a user who may stop acting.
NextLive ==
    \/ Pass
    \/ ClockOrigin
    \/ setInfo(TRUE)
    \/ getFuncsArray
    \/ beNotifiedReady
    \/ ToggleAutosave(TRUE, TRUE)
    \/ Set1(TRUE, TRUE)
    \/ Idle
    \/ \E post \in PostResults : TimerFire(post)
    \/ \E post \in PostResults : StaleFire(post)

\* Time passes and the host pumps its messages: a timer that is due does get
\* its callback.
SpecLive ==
    /\ Init /\ [][NextLive]_vars
    /\ WF_vars(Pass) /\ WF_vars(ClockOrigin)
    /\ WF_vars(\E post \in PostResults : TimerFire(post))

----------------------------------------------------------------------------
(* Properties *)

\* The one armed autosave timer, as StartAutosaveTimer leaves it at this
\* instant for an interval of m minutes.
ArmedFor(m) ==
    /\ g_autosaveTimerId # 0
    /\ timers = {[id |-> g_autosaveTimerId, period |-> m * MsPerMinute,
                  due |-> now + m * MsPerMinute]}

\* The save-all dispatches of the entry point that ran last.
Dispatches == Len(last.post)

\* The timer callback ran last, from a live timer or as a stale message.
Fired == last.op \in {"TimerFire", "StaleFire"}

\* C1: once ToggleAutosave has switched autosave off, no autosave timer is
\* armed and no step makes a save-all dispatch for as long as autosave stays
\* off, and only ToggleAutosave switches it back on.  (Disabled at 50000 ms
\* with g_nextTick = 180000, nothing is dispatched at 180000.)
C1_DisabledNoDispatch ==
    [][ /\ (~g_enabled' => timers' = {} /\ g_autosaveTimerId' = 0)
        /\ (~g_enabled => last'.post = << >>)
        /\ (~g_enabled /\ g_enabled' => last'.op = "ToggleAutosave") ]_vars

\* Loaded at 0 with the default 3 minutes, switched off before the timer came
\* due, and the clock now at the 180000 ms the timer was due at: nothing was
\* ever dispatched.
C1_Witness ==
    /\ phase = "ready" /\ ~g_enabled /\ now = 180000 /\ g_nextTick = 180000
    /\ timers = {} /\ ~staleFire
    /\ ~g_lastSaveValid /\ ~g_lastErrValid /\ last.post = << >>

\* C2: a run of the timer callback while autosave is enabled and the host
\* handle is held makes exactly one save-all dispatch and leaves g_nextTick at
\* the firing time plus the current interval; setInfo at 0 leaves g_nextTick
\* at 180000.
C2_FiringDispatchesOnce ==
    /\ (Fired /\ g_enabled /\ g_hNppWnd # NULL =>
            /\ Dispatches = 1
            /\ g_nextTick = now + g_minutes * MsPerMinute)
    /\ (last.op = "setInfo" /\ now = 0 => g_nextTick = 180000)

\* The 3-minute timer armed at 0 is served late, at 181000 ms.
C2_Witness ==
    /\ last.op = "TimerFire" /\ now = 181000 /\ g_minutes = 3
    /\ Dispatches = 1 /\ g_nextTick = 361000
    /\ \E tm \in timers : tm.due = 360000

\* C3: SetMinutes(m) while autosave is enabled leaves exactly one timer, armed
\* anew for m minutes from the time of the call, and g_nextTick at the time of
\* the call plus m minutes.
C3_SetMinutesRestarts ==
    last.op = "SetMinutes" /\ g_enabled =>
        /\ g_minutes = (IF last.arg <= 0 THEN 1 ELSE last.arg)
        /\ g_intervalMs = g_minutes * MsPerMinute
        /\ g_nextTick = now + g_minutes * MsPerMinute
        /\ ArmedFor(g_minutes)

\* SetMinutes(3) at 50000 ms, 3 minutes being the interval already active
\* since the load at 0.
C3_Witness ==
    /\ last.op = "SetMinutes" /\ last.arg = 3 /\ g_enabled
    /\ now = 50000 /\ g_nextTick = 230000
    /\ ~g_lastSaveValid /\ ~g_lastErrValid /\ init2Check[FUNC_3MIN]

\* C4: SetMinutes(m) with m <= 0 stores 1 minute, and while enabled the timer
\* period, g_intervalMs and the countdown are those of 60000 ms;
\* ComputeIntervalMs(m) is 60000 for m <= 0.
C4_NonPositiveIsOneMinute ==
    /\ \A m \in NonPositive : ComputeIntervalMs(m) = 60000
    /\ (last.op = "SetMinutes" /\ last.arg <= 0 =>
            /\ g_minutes = 1
            /\ init2Check[FUNC_1MIN] /\ menuCheck[FUNC_1MIN]
            /\ (g_enabled =>
                    /\ g_intervalMs = 60000
                    /\ g_nextTick = now + 60000
                    /\ g_autosaveTimerId # 0
                    /\ timers = {[id |-> g_autosaveTimerId, period |-> 60000,
                                  due |-> now + 60000]}))

\* SetMinutes(0) at 50000 ms while enabled, the interval having been another.
C4_Witness ==
    /\ last.op = "SetMinutes" /\ last.arg = 0 /\ g_enabled
    /\ now = 50000 /\ g_minutes = 1 /\ g_nextTick = 110000

\* The remaining seconds the debug text shows, from its minutes and seconds.
ShownSeconds(text) == text[1].nextIn[1] * 60 + text[1].nextIn[2]

\* C5: in every state with autosave enabled, the remaining time the status
\* text gives is the whole seconds of g_nextTick - now when g_nextTick > now,
\* and 0 when now >= g_nextTick; it is never negative.
C5_RemainingFloorsAndClamps ==
    g_enabled =>
        LET secs == ShownSeconds(BuildDebugText(S))
        IN  /\ secs >= 0
            /\ BuildDebugText(S)[1].nextIn[2] \in 0 .. 59
            /\ (g_nextTick > now =>
                    /\ secs * 1000 <= g_nextTick - now
                    /\ g_nextTick - now < (secs + 1) * 1000)
            /\ (now >= g_nextTick => secs = 0)

\* The debug window shows 0m 0s for a fire that is a second overdue.
C5_Witness ==
    /\ g_enabled /\ g_hDbgWnd # NULL /\ now = 181000 /\ g_nextTick = 180000
    /\ dbgText = BuildDebugText(S) /\ dbgText[1].nextIn = << 0, 0 >>

\* C6: a firing whose dispatch the host refuses differs from an accepted one
\* only in what is recorded: dispatches are made by the timer callback alone,
\* one a firing; after a firing that dispatched, the error flag is set iff the
\* post was refused (with the error code), autosave is still enabled, its
\* timer is still armed and g_nextTick is the firing time plus the interval;
\* the last-save record is set by an accepted post.
C6_RefusalOnlyRecorded ==
    /\ (last.post # << >> => Fired /\ Dispatches = 1)
    /\ (Fired /\ last.post # << >> =>
            /\ g_lastErrValid = (last.post[1] # PostOk)
            /\ g_lastErrCode = last.post[1]
            /\ (last.post[1] = PostOk =>
                    g_lastSaveValid /\ g_lastSaveLocal = LocalTime(now))
            /\ g_enabled
            /\ g_autosaveTimerId # 0
            /\ \E tm \in timers : tm.id = g_autosaveTimerId
            /\ Cardinality(timers) = 1
            /\ g_nextTick = now + g_intervalMs
            /\ g_intervalMs = g_minutes * MsPerMinute)

\* A refused firing at 181000 ms, after an accepted one at 60000 ms.
C6_Witness ==
    /\ last.op = "TimerFire" /\ last.post = << 5 >> /\ now = 181000
    /\ g_lastErrValid /\ g_lastErrCode = 5 /\ g_enabled
    /\ g_lastSaveValid /\ g_lastSaveLocal = LocalTime(60000)
    /\ g_minutes = 1 /\ g_nextTick = 241000

\* C7: every call of setInfo leaves autosave enabled, the interval at 3
\* minutes, the debug flag off, one autosave timer armed with period 180000 ms
\* and g_nextTick at the load time plus 180000 ms, whatever the state before.
C7_SetInfoDefaults ==
    [][ setInfo(TRUE) \/ setInfoAgain(TRUE) =>
            /\ g_enabled' /\ g_minutes' = 3 /\ ~g_debug'
            /\ g_intervalMs' = 180000
            /\ g_nextTick' = now + 180000
            /\ g_autosaveTimerId' # 0
            /\ timers' = {[id |-> g_autosaveTimerId', period |-> 180000,
                           due |-> now + 180000]}
            /\ init2Check' = [i \in FuncIdx |-> i \in {FUNC_TOGGLE, FUNC_3MIN}]
      ]_vars

\* setInfo called at 50000 ms on a plugin that was disabled, set to 10
\* minutes and showing its debug window.
C7_Witness ==
    /\ last.op = "setInfo" /\ now = 50000 /\ g_nextTick = 230000
    /\ menuCheck[FUNC_10MIN] /\ ~menuCheck[FUNC_TOGGLE] /\ g_hDbgWnd # NULL

\* C8: after Cleanup no autosave timer and no debug refresh timer is armed,
\* neither auxiliary window exists, and nothing is dispatched, also not by a
\* timer callback delivered afterwards.
C8_CleanupStopsEverything ==
    phase = "detached" =>
        /\ timers = {} /\ g_autosaveTimerId = 0
        /\ ~dbgTimerSet /\ g_dbgTimerId = 0 /\ dbgQueue = << >>
        /\ g_hDbgWnd = NULL /\ g_hDbgEdit = NULL /\ g_hAboutWnd = NULL
        /\ last.op \in {"Cleanup", "Advance", "StaleFire"}
        /\ last.post = << >>

\* Unloaded with autosave enabled and the timer due: the callback is still
\* delivered after Cleanup.
C8_Witness ==
    /\ phase = "detached" /\ last.op = "StaleFire" /\ g_enabled
    /\ now = 180000 /\ g_nextTick = 180000

\* The state the scheduler keeps between firings.
schedVars == << g_enabled, g_minutes, g_intervalMs, g_nextTick, g_hNppWnd,
                g_autosaveTimerId, g_lastSaveValid, g_lastSaveLocal,
                g_lastErrValid, g_lastErrCode, g_debug, dbgQueue, dbgText,
                init2Check, menuCheck >>

\* C9: a run of the timer callback while autosave is disabled or no host
\* handle is held makes no dispatch and changes nothing of the scheduler.
C9_CallbackNoOp ==
    [][ (\E post \in PostResults : TimerFire(post) \/ StaleFire(post))
        /\ (~g_enabled \/ g_hNppWnd = NULL)
        => last'.post = << >> /\ UNCHANGED schedVars ]_vars

\* A stale callback ran while autosave was switched off.
C9_Witness ==
    /\ phase = "ready" /\ last.op = "StaleFire" /\ ~g_enabled
    /\ g_hNppWnd # NULL /\ now = 181000 /\ g_nextTick = 180000

\* The check marks the current flags call for.
ChecksOfFlags ==
    [i \in FuncIdx |->
        CASE i = FUNC_TOGGLE -> g_enabled
          [] i = FUNC_1MIN   -> g_minutes = 1
          [] i = FUNC_3MIN   -> g_minutes = 3
          [] i = FUNC_10MIN  -> g_minutes = 10
          [] i = FUNC_DEBUG  -> g_debug
          [] i = FUNC_ABOUT  -> FALSE]

\* C10: once the host has reported ready, the menu check marks are those of
\* the flags (toggle iff enabled, each interval item iff it is the interval,
\* so exactly one of them, debug iff the debug flag, About never); from
\* setInfo on the _init2Check fields agree with the same flags.
C10_ChecksReflectState ==
    /\ (phase = "ready" =>
            /\ menuCheck = ChecksOfFlags
            /\ Cardinality({i \in {FUNC_1MIN, FUNC_3MIN, FUNC_10MIN} :
                                menuCheck[i]}) = 1)
    /\ (phase \in {"loaded", "registered", "ready"} =>
            init2Check = ChecksOfFlags)

\* Autosave off, 10 minutes chosen, and the debug window opened and then
\* closed by the user.
C10_Witness ==
    /\ phase = "ready" /\ ~g_enabled /\ g_minutes = 10
    /\ ~g_debug /\ g_hDbgWnd = NULL /\ dbgText = NoText
    /\ menuCheck = [i \in FuncIdx |-> i = FUNC_10MIN]
    /\ g_lastSaveValid

\* The minutes whose milliseconds are the largest a 32-bit unsigned holds,
\* and the least whose milliseconds need bit 31.
ExactMinutes == {1, 3, 10, 30000, 35791, 35792, 71582}

\* x is m minutes in ms, said without forming the product m * 60000.
IsMinutes(x, m) == x \div MsPerMinute = m /\ x % MsPerMinute = 0

\* C11, as claimed: SetMinutes(m) with any m >= 1 while enabled leaves
\* g_intervalMs at m * 60000 ms and the timer armed with that period.
C11_Original ==
    last.op = "SetMinutes" /\ last.arg >= 1 /\ g_enabled =>
        /\ IsMinutes(g_intervalMs, last.arg)
        /\ \A tm \in timers : tm.period = g_intervalMs

\* C11, amended: ComputeIntervalMs(m) is m * 60000 for 1 <= m <= 71582 (in
\* units of 32 ms: m * 1875); SetMinutes(m) with such an m while enabled
\* leaves g_intervalMs at m * 60000 ms; and after any SetMinutes while
\* enabled, wrapped or not, the one armed timer has the period g_intervalMs
\* that the countdown uses.
C11_PeriodIsInterval ==
    /\ \A m \in ExactMinutes : ComputeIntervalUnits(m) = m * 1875
    /\ (last.op = "SetMinutes" /\ g_enabled =>
            /\ g_intervalMs = 32 * ComputeIntervalUnits(g_minutes)
            /\ g_autosaveTimerId # 0
            /\ timers = {[id |-> g_autosaveTimerId, period |-> g_intervalMs,
                          due |-> now + g_intervalMs]}
            /\ g_nextTick = now + g_intervalMs
            /\ (last.arg >= 1 /\ last.arg <= 71582 =>
                    IsMinutes(g_intervalMs, last.arg)))

\* SetMinutes(30000) at 50000 ms: the timer is armed for 1800000000 ms.
C11_Witness ==
    /\ last.op = "SetMinutes" /\ last.arg = 30000 /\ g_enabled /\ now = 50000
    /\ g_intervalMs = 1800000000 /\ g_nextTick = 1800050000
    /\ \E tm \in timers : tm.period = 1800000000

\* What the scheduler owns: its flags, its schedule, its timer and its
\* records of the last save and the last error.
ownedVars == << g_enabled, g_minutes, g_intervalMs, g_nextTick, g_hNppWnd,
                g_autosaveTimerId, timers, staleFire, g_lastSaveValid,
                g_lastSaveLocal, g_lastErrValid, g_lastErrCode >>

\* C12: a refresh of the debug window, from its own timer or from a posted
\* WM_TIMER, changes nothing the scheduler owns and dispatches nothing; it
\* only rewrites the window's text, and a second refresh at the same instant
\* rewrites it to the same text.
C12_RefreshIsPassive ==
    [][ DbgTimerTick \/ DbgPostedTimer =>
            /\ UNCHANGED ownedVars
            /\ UNCHANGED << g_debug, g_hDbgWnd, g_dbgTimerId, dbgTimerSet,
                            init2Check, menuCheck, last >>
            /\ dbgText' \in {dbgText, BuildDebugText(S)}
            /\ DbgWmTimer(DbgWmTimer(S, kDbgTimerId), kDbgTimerId)
                    = DbgWmTimer(S, kDbgTimerId)
      ]_vars

\* The window, whose posted WM_TIMER has been delivered, shows 2m 10s at
\* 50000 ms for the fire due at 180000 ms.
C12_Witness ==
    /\ g_hDbgWnd # NULL /\ g_debug /\ dbgQueue = << >> /\ g_enabled
    /\ now = 50000 /\ g_nextTick = 180000
    /\ dbgText = BuildDebugText(S) /\ dbgText[1].nextIn = << 2, 10 >>
    /\ \E tm \in timers : tm.due = 180000

\* The debug side: its flag, its window and its refresh timer.
debugVars == << g_debug, g_hDbgWnd, g_hDbgEdit, g_dbgTimerId, dbgTimerSet >>

\* C13: short of the unload, a step that changes the debug side (the flag,
\* the window, the refresh timer: ToggleDebug, the closing of the window)
\* changes nothing the scheduler owns (enabled, interval, g_nextTick, the
\* armed timer, the records) and dispatches nothing; and a step that changes
\* something the scheduler owns (ToggleAutosave, SetMinutes, a firing) leaves
\* the debug flag as it is.
C13_TimersIndependent ==
    [][ phase' # "detached" =>
            /\ (debugVars' # debugVars =>
                    UNCHANGED ownedVars /\ UNCHANGED last)
            /\ (ownedVars' # ownedVars => UNCHANGED g_debug)
      ]_vars

\* The debug window opened at 50000 ms, its first posted refresh not yet
\* delivered: the timer armed at 0 is still due at 180000 ms.
C13_Witness ==
    /\ g_debug /\ g_hDbgWnd # NULL /\ dbgQueue = << kDbgTimerId >>
    /\ g_enabled /\ now = 50000 /\ g_nextTick = 180000
    /\ dbgText # NoText /\ dbgText[1].nextIn = << 2, 10 >>
    /\ \E tm \in timers : tm.due = 180000 /\ tm.period = 180000
    /\ last.op = "Advance"

\* A start of the scheduler (setInfo, enabling ToggleAutosave, SetMinutes
\* while enabled) ran last.
Started == last.op \in {"setInfo", "ToggleAutosave", "SetMinutes"} /\ g_enabled

C16_IntervalOfMenu ==
    phase \in {"loaded", "registered", "ready", "detached"} =>
        /\ g_minutes \in {1, 3, 10}
        /\ g_minutes >= 1
        /\ (timers # {} =>
                /\ g_intervalMs = g_minutes * MsPerMinute
                /\ \A tm \in timers : tm.period = g_intervalMs)

\* A firing of the 1-minute timer that was armed at 50000 ms, on time.
C16_Witness ==
    /\ last.op = "TimerFire" /\ timers # {} /\ g_minutes = 1
    /\ g_intervalMs = 60000 /\ now = 110000 /\ g_nextTick = 170000

\* C17: between setInfo and Cleanup, the OS granting every timer, an autosave
\* timer is armed iff autosave is enabled, at most one is armed, and it is
\* the one whose id g_autosaveTimerId holds.
C17_ArmedIffEnabled ==
    phase \in {"loaded", "registered", "ready"} =>
        /\ (timers # {}) = g_enabled
        /\ (g_autosaveTimerId # 0) = g_enabled
        /\ Cardinality(timers) <= 1
        /\ \A tm \in timers : tm.id = g_autosaveTimerId

\* Autosave switched off and, at 110000 ms, on again: one timer, due at
\* 290000 ms.
C17_Witness ==
    /\ last.op = "ToggleAutosave" /\ g_enabled /\ now = 110000
    /\ g_minutes = 3 /\ g_nextTick = 290000 /\ ~staleFire
    /\ Cardinality(timers) = 1 /\ \E tm \in timers : tm.due = 290000

\* A firing of the armed timer that dispatches.
DispatchStep ==
    /\ g_enabled /\ g_hNppWnd # NULL
    /\ \E post \in PostResults : TimerFire(post)

\* C18, as claimed: g_nextTick - g_intervalMs being the latest of the load,
\* the re-enable, the interval change and the previous dispatch, no dispatch
\* is made before g_nextTick.
C18_Original == [][ DispatchStep => now >= g_nextTick ]_vars

\* C18, amended: after a load, a re-enable or an interval change, every armed
\* timer is due one full current interval later, not before; a firing of an
\* armed timer is served at or after its due instant, and the due instants of
\* its consecutive firings are a whole number of periods apart, one at least.
C18_DueInstantsApart ==
    /\ [](Started => \A tm \in timers :
                        /\ tm.due = now + g_minutes * MsPerMinute
                        /\ tm.due = g_nextTick
                        /\ tm.period = g_minutes * MsPerMinute)
    /\ [][ g_enabled /\ (\E post \in PostResults : TimerFire(post)) =>
                \A tm \in timers, nx \in timers' :
                    /\ now >= tm.due
                    /\ nx.due - tm.due >= tm.period
                    /\ (nx.due - tm.due) % tm.period = 0
      ]_vars

\* The 1-minute timer was served at 110000 ms, 50 s late, and again at
\* 120000 ms, on time: the debug window, not refreshed since, still shows the
\* save of ten seconds before.
C18_Witness ==
    /\ last.op = "TimerFire" /\ last.post = << PostOk >> /\ now = 120000
    /\ g_minutes = 1 /\ g_nextTick = 180000
    /\ g_lastSaveLocal = LocalTime(120000)
    /\ g_hDbgWnd # NULL /\ dbgText # NoText
    /\ dbgText[1].lastSave = FormatHHMMSS(LocalTime(110000))

\* The state a dispatching run of the timer callback leaves.
Dispatched == Fired /\ last.post # << >>

\* C19: once the user has stopped acting with autosave enabled, time passing
\* and due timers being served, a save-all dispatch is attempted again and
\* again, each after a passing of time; and a start leaves nothing due before
\* a full interval has passed, so that starts less than an interval apart
\* keep the timer from ever coming due.
C19_DispatchesRecur ==
    /\ [](phase = "idle" /\ g_enabled =>
            []<>Dispatched /\ []<>(last.op = "Advance"))
    /\ [](Started => \A tm \in timers : tm.due - now = g_minutes * MsPerMinute)

\* The user has stopped acting, autosave enabled at 1 minute, and a firing
\* served half a minute late has dispatched.
C19_Witness ==
    /\ phase = "idle" /\ g_enabled /\ Dispatched /\ g_minutes = 1
    /\ \E tm \in timers : tm.due - now = 30000
    /\ g_nextTick - now = 60000

\* C20: from setInfo on, the OS granting every window, the debug flag is on
\* iff the debug window exists iff its refresh timer is armed (and iff its
\* edit control exists and its timer id is held); and ToggleAutosave and
\* SetMinutes, which call ShowDebugWindow while the flag is on, make no second
\* window nor timer: the window, its timer and its text stay as they were.
C20_DebugFlagWindowTimer ==
    /\ [](phase \in {"loaded", "registered", "ready"} =>
            /\ g_debug = (g_hDbgWnd # NULL)
            /\ g_debug = dbgTimerSet
            /\ g_debug = (g_dbgTimerId = kDbgTimerId)
            /\ g_debug = (g_hDbgEdit # NULL)
            /\ g_hDbgWnd \in {NULL, DbgHwnd} /\ g_dbgTimerId \in {0, kDbgTimerId}
            /\ (~g_debug => dbgQueue = << >> /\ dbgText = NoText))
    /\ [][ /\ last'.op \in {"ToggleAutosave", "SetMinutes"}
           /\ ownedVars' # ownedVars
           => UNCHANGED << debugVars, dbgText >> ]_vars

\* SetMinutes(1) at 50000 ms with the debug window open: the window is the
\* one there was, still showing the 3 minutes of its last refresh.
C20_Witness ==
    /\ last.op = "SetMinutes" /\ last.arg = 1 /\ now = 50000
    /\ g_debug /\ g_hDbgWnd = DbgHwnd /\ dbgTimerSet /\ g_minutes = 1
    /\ dbgText # NoText /\ dbgText[1].minutes = 3

\* C21: SetMinutes(m) while autosave is disabled stores m and nothing else of
\* the scheduler: no timer is armed, no id held, nothing dispatched, autosave
\* stays disabled, g_intervalMs and g_nextTick stay as they were; and a
\* ToggleAutosave that enables arms the one timer for the minutes stored
\* last, with g_nextTick at the time of the call plus those minutes.
C21_DisabledOnlyRecords ==
    /\ [](last.op = "SetMinutes" /\ ~g_enabled =>
            /\ g_minutes = last.arg
            /\ timers = {} /\ g_autosaveTimerId = 0
            /\ last.post = << >>
            /\ init2Check = ChecksOfFlags)
    /\ [][ ~g_enabled /\ last'.op = "SetMinutes" /\ g_minutes' # g_minutes =>
                UNCHANGED << g_enabled, g_intervalMs, g_nextTick, timers,
                             g_autosaveTimerId, staleFire, g_lastSaveValid,
                             g_lastSaveLocal, g_lastErrValid, g_lastErrCode >>
      ]_vars
    /\ [](last.op = "ToggleAutosave" /\ g_enabled =>
            /\ g_intervalMs = g_minutes * MsPerMinute
            /\ g_nextTick = now + g_minutes * MsPerMinute
            /\ ArmedFor(g_minutes)
            /\ last.post = << >>)

\* Autosave enabled at 110000 ms for 10 minutes; the debug window, whose
\* refresh is still queued, shows autosave disabled at 3 minutes.
C21_Witness ==
    /\ last.op = "ToggleAutosave" /\ g_enabled /\ now = 110000
    /\ g_minutes = 10 /\ g_intervalMs = 600000 /\ g_nextTick = 710000
    /\ g_hDbgWnd # NULL /\ dbgText # NoText /\ dbgQueue # << >>
    /\ ~dbgText[1].enabled /\ dbgText[1].minutes = 3

====
